---- MODULE Spec2Model ----
(***************************************************************************)
(* Port-call planner (planner.py): the plan store, the schedule generator  *)
(* (create_plan), the batch reconciliation pass                            *)
(* (update_plan_from_manual_table), the single-stop edit                   *)
(* (manual_update_stop), freezing, clearing and the timing-rule setters.   *)
(*                                                                         *)
(* Dates.  A calendar day is an integer (days since an epoch).  A date     *)
(* STRING, as stored in a stop or submitted by a caller, is a record       *)
(* [form, day]: "iso" is the zero-padded text strftime writes              *)
(* ("2026-02-08"), "loose" is a text strptime also accepts but strftime    *)
(* never writes ("2026-2-8"), "empty" is "" (None is modelled by it too:   *)
(* the code only tests truthiness), "bad" is any non-empty text strptime   *)
(* rejects.  Stop indices are the code's 0-based indices; stops[idx + 1]   *)
(* is the code's plan["stops"][idx].                                       *)
(***************************************************************************)
EXTENDS Integers, Sequences, FiniteSets, TLC

VARIABLES
    transition_days,   \* db.data["transition_days"][from][to]
    stay_days,         \* db.data["stay_days"], a function on the ports that have an entry
    plans,             \* db.data["plans"], a sequence of plan records
    next_plan_id,      \* db.data["next_plan_id"]
    disk,              \* the document last written by PlannerDB.save
    cp,                \* the frame of a running create_plan call
    last,              \* the last service call: its name, arguments, outcome, the plan before it
    ops,               \* number of service calls made so far
    th                 \* the frames of the request threads of ThreadingHTTPServer

vars == <<transition_days, stay_days, plans, next_plan_id, disk, cp, last, ops, th>>

----------------------------------------------------------------------------
(* Bounds of the model *)

\* service calls explored after start-up
MaxOps == 3
\* stops the generator loop is followed for; a longer run is not followed further
MaxStops == 9
\* stay_days value of the loaded document
LongStay == 100
\* transition_days value between distinct ports of the loaded document
LongTravel == 110

(* Program constants *)
PLAN_HORIZON_DAYS == 365

Ships == {"S1"}
Ports == {"A", "B"}
None == "None"

----------------------------------------------------------------------------
(* Date strings *)

Empty == [form |-> "empty", day |-> 0]
Malformed == [form |-> "bad", day |-> 0]
Iso(d) == [form |-> "iso", day |-> d]
Loose(d) == [form |-> "loose", day |-> d]

\* Python truthiness of a str / Optional[str]
Truthy(s) == s.form # "empty"

\* _parse_date raises ValueError unless strptime accepts the text
ParseOK(s) == s.form \in {"iso", "loose"}
ParseDate(s) == s.day

FmtDate(d) == Iso(d)

----------------------------------------------------------------------------
(* Timing rules *)

\* self.db.data["stay_days"].get(port, 1)
\* fault: an unset stay counts as no stay
StayOfNoDefault(port) == IF port \in DOMAIN stay_days THEN stay_days[port] ELSE 0

StayOf(port) == IF port \in DOMAIN stay_days THEN stay_days[port] ELSE 1

\* self.db.data["transition_days"][prev_port][port]
Travel(prev_port, port) == transition_days[prev_port][port]

----------------------------------------------------------------------------
(* Records *)

Stop(port, arrival, departure, skipped) ==
    [port |-> port, arrival |-> arrival, departure |-> departure, skipped |-> skipped]

Plan(id, ship, route, start_date, end_date, stops, frozen_rows) ==
    [id |-> id, ship |-> ship, route |-> route, start_date |-> start_date,
     end_date |-> end_date, stops |-> stops, frozen_rows |-> frozen_rows]

NoPlan == Plan(0, "", <<>>, Empty, Empty, <<>>, {})

Document(pl, nid, td, sd) ==
    [plans |-> pl, next_plan_id |-> nid, transition_days |-> td, stay_days |-> sd]

IdleFrame ==
    [pc |-> "idle", ship |-> "", route |-> <<>>, start_date |-> Empty, limit |-> 0,
     current_departure |-> 0, idx |-> 0, stops |-> <<>>]

Call(op, ok, plan_id, before, args) ==
    [op |-> op, ok |-> ok, plan_id |-> plan_id, before |-> before, args |-> args]

NoArgs == [none |-> TRUE]

----------------------------------------------------------------------------
(* Plan store lookups *)

PlanIds == {plans[i].id : i \in 1..Len(plans)}

\* position in db.data["plans"] of the first plan with this id (get_plan's loop)
PlanPos(plan_id) ==
    CHOOSE i \in 1..Len(plans) :
        /\ plans[i].id = plan_id
        /\ \A j \in 1..(i - 1) : plans[j].id # plan_id

GetPlan(plan_id) == plans[PlanPos(plan_id)]

\* no request thread is running: the calls are made one at a time
NoThreads == <<>>

Idle == cp.pc = "idle"
CanCall == Idle /\ ops < MaxOps

----------------------------------------------------------------------------
(* Start-up: PlannerDB loads an existing document.  Stays and transitions  *)
(* follow _load_or_create's pattern (0 from a port to itself, one value    *)
(* elsewhere) with long durations, so that a plan of PLAN_HORIZON_DAYS has *)
(* a handful of stops.  Port B has no stay entry until set_stay gives it   *)
(* one.                                                                    *)

InitTransition == [f \in Ports |-> [t \in Ports |-> IF f = t THEN 0 ELSE LongTravel]]

Init ==
    /\ transition_days = InitTransition
    /\ stay_days = [p \in {"A"} |-> LongStay]
    /\ plans = <<>>
    /\ next_plan_id = 1
    /\ disk = Document(plans, next_plan_id, transition_days, stay_days)
    /\ cp = IdleFrame
    /\ last = Call("start", TRUE, 0, NoPlan, NoArgs)
    /\ ops = 0
    /\ th = NoThreads

\* PlannerDB.save
Save(pl, nid, td, sd) == disk' = Document(pl, nid, td, sd)

----------------------------------------------------------------------------
(* create_plan *)

\* fault: the length of the route is not checked
CreateValidAnyLength(ship, route, start_date) ==
    /\ ship \in Ships
    /\ \A i \in 1..Len(route) : route[i] \in Ports
    /\ ParseOK(start_date)

CreateValid(ship, route, start_date) ==
    /\ ship \in Ships
    /\ Len(route) >= 2
    /\ \A i \in 1..Len(route) : route[i] \in Ports
    /\ ParseOK(start_date)

\* lines 129-134: the locals on entry to the loop
LoopFrame(ship, route, start_date) ==
    [pc |-> "loop", ship |-> ship, route |-> route, start_date |-> start_date,
     limit |-> ParseDate(start_date) + PLAN_HORIZON_DAYS,
     current_departure |-> ParseDate(start_date),
     idx |-> 0, stops |-> <<>>]

\* lines 120-134: validation, then the loop's initial frame
CreatePlanCall(ship, route, start_date) ==
    /\ CanCall
    /\ ops' = ops + 1
    /\ IF CreateValid(ship, route, start_date)
       THEN /\ cp' = LoopFrame(ship, route, start_date)
            /\ UNCHANGED last
       ELSE /\ last' = Call("create_plan", FALSE, 0, NoPlan,
                            [ship |-> ship, route |-> route, start_date |-> start_date])
            /\ UNCHANGED cp
    /\ UNCHANGED <<transition_days, stay_days, plans, next_plan_id, disk>>

\* lines 136-146: the stop one loop iteration appends
GenStop(f) ==
    LET port == f.route[(f.idx % Len(f.route)) + 1]
        arrival == IF f.stops = <<>>
                   THEN f.current_departure
                   ELSE f.current_departure + Travel(f.stops[Len(f.stops)].port, port)
        departure == arrival + StayOf(port)
    IN  Stop(port, FmtDate(arrival), FmtDate(departure), FALSE)

\* line 135: while current_departure < limit
\* fault: the loop goes on while the last arrival is before the limit
LoopConditionOnArrival(f) ==
    IF f.stops = <<>>
    THEN TRUE
    ELSE ParseDate(f.stops[Len(f.stops)].arrival) < f.limit

LoopCondition(f) == f.current_departure < f.limit

\* lines 135-149: one iteration of the loop
CreatePlanStep ==
    /\ cp.pc = "loop"
    /\ LoopCondition(cp)
    /\ Len(cp.stops) < MaxStops
    /\ LET stop == GenStop(cp)
       IN  cp' = [cp EXCEPT !.stops = Append(@, stop),
                            !.current_departure = ParseDate(stop.departure),
                            !.idx = @ + 1]
    /\ UNCHANGED <<transition_days, stay_days, plans, next_plan_id, disk, last, ops, th>>

\* line 151: plan_id = self.db.data["next_plan_id"]
\* fault: the id is the number of stored plans plus one
AssignedIdFromCount == Len(plans) + 1

AssignedId == next_plan_id

\* lines 151-166: the loop has ended; assign the id, store the plan, save
CreatePlanReturn ==
    /\ cp.pc = "loop"
    /\ ~LoopCondition(cp)
    /\ LET plan == Plan(AssignedId, cp.ship, cp.route, cp.start_date,
                        FmtDate(cp.limit), cp.stops, {})
       IN  /\ plans' = Append(plans, plan)
           /\ next_plan_id' = next_plan_id + 1
           /\ last' = Call("create_plan", TRUE, plan.id, NoPlan,
                           [ship |-> cp.ship, route |-> cp.route,
                            start_date |-> cp.start_date])
           /\ Save(plans', next_plan_id', transition_days, stay_days)
    /\ cp' = IdleFrame
    /\ UNCHANGED <<transition_days, stay_days, ops, th>>

----------------------------------------------------------------------------
(* Helpers on a plan *)

StopIndices(plan) == 0..(Len(plan.stops) - 1)

\* the plan list with the stops (and frozen rows) of one plan replaced: the
\* handlers mutate the dict get_plan returns, which is the stored one
WithPlan(plan_id, stops, frozen_rows) ==
    [plans EXCEPT ![PlanPos(plan_id)] =
        [@ EXCEPT !.stops = stops, !.frozen_rows = frozen_rows]]

\* a handler whose get_plan raised: nothing is touched
NotFound(op, plan_id) ==
    /\ last' = Call(op, FALSE, plan_id, NoPlan, NoArgs)
    /\ UNCHANGED <<transition_days, stay_days, plans, next_plan_id, disk, cp>>

----------------------------------------------------------------------------
(* update_plan_from_manual_table *)

\* lines 246-254: the stops of frozen rows that are fully dated or skipped
\* fault: frozen_rows looked up by stop index instead of by period
FrozenIndicesByStopIndex(plan) ==
    {idx \in StopIndices(plan) :
        /\ idx \in plan.frozen_rows
        /\ \/ Truthy(plan.stops[idx + 1].arrival) /\ Truthy(plan.stops[idx + 1].departure)
           \/ plan.stops[idx + 1].skipped}

\* fault: every stop of a frozen row is protected, dated or not
FrozenIndicesWholeRow(plan) ==
    {idx \in StopIndices(plan) : (idx \div Len(plan.route)) \in plan.frozen_rows}

FrozenIndices(plan) ==
    {idx \in StopIndices(plan) :
        /\ (idx \div Len(plan.route)) \in plan.frozen_rows
        /\ \/ Truthy(plan.stops[idx + 1].arrival) /\ Truthy(plan.stops[idx + 1].departure)
           \/ plan.stops[idx + 1].skipped}

\* lines 263-287: one entry of the batch applied to its stop.
\* [stop, locked, raised]: the stop as left behind, whether the index joins
\* locked_indices, whether the entry raised ValueError (before writing)
\* fault: every valid pair of dates locks its stop, changed or not
ApplyEntryLocksUnchanged(stop, entry) ==
    LET arrival == entry[1]
        departure == entry[2]
    IN  IF ~Truthy(arrival) /\ ~Truthy(departure)
        THEN [stop |-> IF Truthy(stop.arrival) \/ Truthy(stop.departure)
                       THEN [stop EXCEPT !.arrival = Empty, !.departure = Empty,
                                         !.skipped = TRUE]
                       ELSE [stop EXCEPT !.skipped = FALSE],
              locked |-> FALSE, raised |-> FALSE]
        ELSE IF \/ ~Truthy(arrival) \/ ~Truthy(departure)
                \/ ~ParseOK(arrival) \/ ~ParseOK(departure)
                \/ ParseDate(departure) < ParseDate(arrival)
        THEN [stop |-> stop, locked |-> FALSE, raised |-> TRUE]
        ELSE [stop |-> [stop EXCEPT !.arrival = arrival, !.departure = departure,
                                    !.skipped = FALSE],
              locked |-> TRUE, raised |-> FALSE]

\* fault: an entry with one date is stored as given and anchors its stop
ApplyEntryOneDate(stop, entry) ==
    LET arrival == entry[1]
        departure == entry[2]
        old_arrival == stop.arrival
        old_departure == stop.departure
    IN  IF ~Truthy(arrival) /\ ~Truthy(departure)
        THEN [stop |-> IF Truthy(old_arrival) \/ Truthy(old_departure)
                       THEN [stop EXCEPT !.arrival = Empty, !.departure = Empty,
                                         !.skipped = TRUE]
                       ELSE [stop EXCEPT !.skipped = FALSE],
              locked |-> FALSE, raised |-> FALSE]
        ELSE IF ~Truthy(arrival) \/ ~Truthy(departure)
        THEN [stop |-> [stop EXCEPT !.arrival = arrival, !.departure = departure,
                                    !.skipped = FALSE],
              locked |-> TRUE, raised |-> FALSE]
        ELSE IF ~ParseOK(arrival) \/ ~ParseOK(departure)
        THEN [stop |-> stop, locked |-> FALSE, raised |-> TRUE]
        ELSE IF ParseDate(departure) < ParseDate(arrival)
        THEN [stop |-> stop, locked |-> FALSE, raised |-> TRUE]
        ELSE [stop |-> [stop EXCEPT !.arrival = arrival, !.departure = departure,
                                    !.skipped = FALSE],
              locked |-> (arrival # old_arrival \/ departure # old_departure),
              raised |-> FALSE]

ApplyEntry(stop, entry) ==
    LET arrival == entry[1]
        departure == entry[2]
        old_arrival == stop.arrival
        old_departure == stop.departure
    IN  IF ~Truthy(arrival) /\ ~Truthy(departure)
        THEN [stop |-> IF Truthy(old_arrival) \/ Truthy(old_departure)
                       THEN [stop EXCEPT !.arrival = Empty, !.departure = Empty,
                                         !.skipped = TRUE]
                       ELSE [stop EXCEPT !.skipped = FALSE],
              locked |-> FALSE, raised |-> FALSE]
        ELSE IF ~Truthy(arrival) \/ ~Truthy(departure)
        THEN [stop |-> stop, locked |-> FALSE, raised |-> TRUE]
        ELSE IF ~ParseOK(arrival) \/ ~ParseOK(departure)
        THEN [stop |-> stop, locked |-> FALSE, raised |-> TRUE]
        ELSE IF ParseDate(departure) < ParseDate(arrival)
        THEN [stop |-> stop, locked |-> FALSE, raised |-> TRUE]
        ELSE [stop |-> [stop EXCEPT !.arrival = arrival, !.departure = departure,
                                    !.skipped = FALSE],
              locked |-> (arrival # old_arrival \/ departure # old_departure),
              raised |-> FALSE]

\* lines 256-287: the first loop, from index idx on, writing into the stored
\* stops as it goes.  [stops, locked, raised]
RECURSIVE ManualLoop(_, _, _, _, _)
ManualLoop(stops, locked, idx, manual_map, frozen_indices) ==
    IF idx >= Len(stops)
    THEN [stops |-> stops, locked |-> locked, raised |-> FALSE]
    ELSE IF idx \notin DOMAIN manual_map \/ idx \in frozen_indices
    THEN ManualLoop(stops, locked, idx + 1, manual_map, frozen_indices)
    ELSE LET r == ApplyEntry(stops[idx + 1], manual_map[idx])
         IN  IF r.raised
             THEN [stops |-> stops, locked |-> locked, raised |-> TRUE]
             ELSE ManualLoop([stops EXCEPT ![idx + 1] = r.stop],
                             IF r.locked THEN locked \cup {idx} ELSE locked,
                             idx + 1, manual_map, frozen_indices)

\* lines 302-313: the dates the second loop takes for a stop that is neither
\* skipped nor frozen: its own when locked, else derived from the chain
\* fault: the transition days are not added
ChainDatesNoTravel(stop, is_locked, prev_port, current_departure) ==
    IF is_locked
    THEN [arrival |-> ParseDate(stop.arrival), departure |-> ParseDate(stop.departure)]
    ELSE [arrival |-> current_departure,
          departure |-> current_departure + StayOf(stop.port)]

\* fault: the chain goes on from derived dates even past a locked stop
ChainDatesIgnoreLocked(stop, is_locked, prev_port, current_departure) ==
    LET arrival == IF prev_port = None
                   THEN current_departure
                   ELSE current_departure + Travel(prev_port, stop.port)
    IN  [arrival |-> arrival, departure |-> arrival + StayOf(stop.port)]

\* fault: a derived stop stays one day whatever stay_days says
ChainDatesUnitStay(stop, is_locked, prev_port, current_departure) ==
    IF is_locked
    THEN [arrival |-> ParseDate(stop.arrival), departure |-> ParseDate(stop.departure)]
    ELSE LET arrival == IF prev_port = None
                        THEN current_departure
                        ELSE current_departure + Travel(prev_port, stop.port)
         IN  [arrival |-> arrival, departure |-> arrival + 1]

ChainDates(stop, is_locked, prev_port, current_departure) ==
    IF is_locked
    THEN [arrival |-> ParseDate(stop.arrival), departure |-> ParseDate(stop.departure)]
    ELSE LET arrival == IF prev_port = None
                        THEN current_departure
                        ELSE current_departure + Travel(prev_port, stop.port)
         IN  [arrival |-> arrival, departure |-> arrival + StayOf(stop.port)]

\* lines 293-318: the body of the second loop for one stop.
\* [stop, prev_port, current_departure]: the stop as written, the chain after it
\* fault: a skipped stop becomes prev_port
ChainStepSkippedAdvances(stop, idx, prev_port, current_departure, locked, frozen_indices) ==
    IF stop.skipped
    THEN [stop |-> stop, prev_port |-> stop.port, current_departure |-> current_departure]
    ELSE IF idx \in frozen_indices
    THEN [stop |-> stop, prev_port |-> stop.port,
          current_departure |-> ParseDate(stop.departure)]
    ELSE LET d == ChainDates(stop, idx \in locked, prev_port, current_departure)
         IN  [stop |-> IF idx \in locked
                       THEN stop
                       ELSE [stop EXCEPT !.arrival = FmtDate(d.arrival),
                                         !.departure = FmtDate(d.departure)],
              prev_port |-> stop.port, current_departure |-> d.departure]

ChainStep(stop, idx, prev_port, current_departure, locked, frozen_indices) ==
    IF stop.skipped
    THEN [stop |-> stop, prev_port |-> prev_port, current_departure |-> current_departure]
    ELSE IF idx \in frozen_indices
    THEN [stop |-> stop, prev_port |-> stop.port,
          current_departure |-> ParseDate(stop.departure)]
    ELSE LET d == ChainDates(stop, idx \in locked, prev_port, current_departure)
         IN  [stop |-> IF idx \in locked
                       THEN stop
                       ELSE [stop EXCEPT !.arrival = FmtDate(d.arrival),
                                         !.departure = FmtDate(d.departure)],
              prev_port |-> stop.port, current_departure |-> d.departure]

\* lines 292-318: the second loop, from index idx on.  It cannot raise: a
\* stop it parses is frozen and dated or was validated by the first loop
RECURSIVE ChainLoop(_, _, _, _, _, _)
ChainLoop(stops, idx, prev_port, current_departure, locked, frozen_indices) ==
    IF idx >= Len(stops)
    THEN stops
    ELSE LET r == ChainStep(stops[idx + 1], idx, prev_port, current_departure,
                            locked, frozen_indices)
         IN  ChainLoop([stops EXCEPT ![idx + 1] = r.stop], idx + 1,
                       r.prev_port, r.current_departure, locked, frozen_indices)

\* lines 243-321
UpdatePlanFromManualTable(plan_id, manual_map) ==
    /\ CanCall
    /\ ops' = ops + 1
    /\ IF plan_id \notin PlanIds
       THEN NotFound("update_plan_from_manual_table", plan_id)
       ELSE LET plan == GetPlan(plan_id)
                frozen_indices == FrozenIndices(plan)
                first == ManualLoop(plan.stops, {}, 0, manual_map, frozen_indices)
                args == [manual_map |-> manual_map]
            IN  IF first.raised
                THEN /\ plans' = WithPlan(plan_id, first.stops, plan.frozen_rows)
                     /\ last' = Call("update_plan_from_manual_table", FALSE, plan_id,
                                     plan, args)
                     /\ UNCHANGED <<transition_days, stay_days, next_plan_id, disk, cp>>
                ELSE /\ plans' = WithPlan(plan_id,
                                          ChainLoop(first.stops, 0, None,
                                                    ParseDate(plan.start_date),
                                                    first.locked, frozen_indices),
                                          plan.frozen_rows)
                     /\ last' = Call("update_plan_from_manual_table", TRUE, plan_id,
                                     plan, args)
                     /\ Save(plans', next_plan_id, transition_days, stay_days)
                     /\ UNCHANGED <<transition_days, stay_days, next_plan_id, cp>>

----------------------------------------------------------------------------
(* manual_update_stop *)

\* lines 198-203: _apply_shift from index idx on, writing as it goes.
\* [stops, raised]: raised when a stop's stored date does not parse
RECURSIVE ApplyShift(_, _, _)
ApplyShift(stops, idx, shift_days) ==
    IF idx >= Len(stops)
    THEN [stops |-> stops, raised |-> FALSE]
    ELSE LET stop == stops[idx + 1]
         IN  IF ~ParseOK(stop.arrival) \/ ~ParseOK(stop.departure)
             THEN [stops |-> stops, raised |-> TRUE]
             ELSE ApplyShift(
                    [stops EXCEPT ![idx + 1] =
                        [@ EXCEPT !.arrival = FmtDate(ParseDate(stop.arrival) + shift_days),
                                  !.departure = FmtDate(ParseDate(stop.departure) + shift_days)]],
                    idx + 1, shift_days)

\* lines 233-238: the shift propagated to the following stops
\* fault: no fall back to the arrival's delta
ShiftDaysDepartureOnly(old_arrival, old_departure, new_arrival, new_departure) ==
    new_departure - old_departure

ShiftDays(old_arrival, old_departure, new_arrival, new_departure) ==
    IF new_departure - old_departure # 0
    THEN new_departure - old_departure
    ELSE new_arrival - old_arrival

\* lines 214-238 on the stored stops.  [stops, raised]
ManualUpdate(stops, stop_index, arrival, departure, propagate) ==
    IF stop_index < 0 \/ stop_index >= Len(stops)
    THEN [stops |-> stops, raised |-> TRUE]
    ELSE LET stop == stops[stop_index + 1]
         IN  IF ~ParseOK(stop.arrival) \/ ~ParseOK(stop.departure)
             THEN [stops |-> stops, raised |-> TRUE]
             ELSE IF Truthy(arrival) /\ ~ParseOK(arrival)
             THEN [stops |-> stops, raised |-> TRUE]
             ELSE LET s1 == IF Truthy(arrival) THEN [stop EXCEPT !.arrival = arrival] ELSE stop
                      stops1 == [stops EXCEPT ![stop_index + 1] = s1]
                  IN  IF Truthy(departure) /\ ~ParseOK(departure)
                      THEN [stops |-> stops1, raised |-> TRUE]
                      ELSE LET s2 == IF Truthy(departure)
                                     THEN [s1 EXCEPT !.departure = departure]
                                     ELSE s1
                               stops2 == [stops EXCEPT ![stop_index + 1] = s2]
                               shift == ShiftDays(ParseDate(stop.arrival),
                                                  ParseDate(stop.departure),
                                                  ParseDate(s2.arrival),
                                                  ParseDate(s2.departure))
                           IN  IF ParseDate(s2.departure) < ParseDate(s2.arrival)
                               THEN [stops |-> stops2, raised |-> TRUE]
                               ELSE IF propagate /\ shift # 0
                               THEN ApplyShift(stops2, stop_index + 1, shift)
                               ELSE [stops |-> stops2, raised |-> FALSE]

\* lines 205-241
ManualUpdateStop(plan_id, stop_index, arrival, departure, propagate) ==
    /\ CanCall
    /\ ops' = ops + 1
    /\ IF plan_id \notin PlanIds
       THEN NotFound("manual_update_stop", plan_id)
       ELSE LET plan == GetPlan(plan_id)
                r == ManualUpdate(plan.stops, stop_index, arrival, departure, propagate)
                args == [stop_index |-> stop_index, arrival |-> arrival,
                         departure |-> departure, propagate |-> propagate]
            IN  /\ plans' = WithPlan(plan_id, r.stops, plan.frozen_rows)
                /\ last' = Call("manual_update_stop", ~r.raised, plan_id, plan, args)
                /\ IF r.raised
                   THEN UNCHANGED disk
                   ELSE Save(plans', next_plan_id, transition_days, stay_days)
                /\ UNCHANGED <<transition_days, stay_days, next_plan_id, cp>>

----------------------------------------------------------------------------
(* set_frozen_rows, clear_plan_schedule, delete_plan *)

\* line 331
\* fault: the last stop index is taken for the last period
MaxRowIsLastStop(plan) == Len(plan.stops) - 1

MaxRow(plan) == (Len(plan.stops) - 1) \div Len(plan.route)

\* line 333: sorted(set(frozen_rows)).  A plan's frozen_rows is kept as the
\* set of the rows of that sorted, duplicate-free list
NormalizedRows(frozen_rows) == {frozen_rows[i] : i \in 1..Len(frozen_rows)}

\* lines 323-340; frozen_rows is the list the caller gives
SetFrozenRows(plan_id, frozen_rows) ==
    /\ CanCall
    /\ ops' = ops + 1
    /\ IF plan_id \notin PlanIds
       THEN NotFound("set_frozen_rows", plan_id)
       ELSE LET plan == GetPlan(plan_id)
                args == [frozen_rows |-> frozen_rows]
                normalized_rows == NormalizedRows(frozen_rows)
                bad == \E row \in normalized_rows : row < 0 \/ row > MaxRow(plan)
            IN  IF frozen_rows # <<>> /\ bad
                THEN /\ last' = Call("set_frozen_rows", FALSE, plan_id, plan, args)
                     /\ UNCHANGED <<transition_days, stay_days, plans, next_plan_id,
                                    disk, cp>>
                ELSE /\ plans' = WithPlan(plan_id, plan.stops, normalized_rows)
                     /\ last' = Call("set_frozen_rows", TRUE, plan_id, plan, args)
                     /\ Save(plans', next_plan_id, transition_days, stay_days)
                     /\ UNCHANGED <<transition_days, stay_days, next_plan_id, cp>>

\* lines 188-196
\* fault: the last stop is removed from the plan
ClearPlanScheduleDropsStops(plan_id) ==
    /\ CanCall
    /\ ops' = ops + 1
    /\ IF plan_id \notin PlanIds
       THEN NotFound("clear_plan_schedule", plan_id)
       ELSE LET plan == GetPlan(plan_id)
                cleared == [i \in 1..(Len(plan.stops) - 1) |->
                               [plan.stops[i] EXCEPT !.arrival = Empty,
                                                     !.departure = Empty,
                                                     !.skipped = FALSE]]
            IN  /\ plans' = WithPlan(plan_id, cleared, {})
                /\ last' = Call("clear_plan_schedule", TRUE, plan_id, plan, NoArgs)
                /\ Save(plans', next_plan_id, transition_days, stay_days)
                /\ UNCHANGED <<transition_days, stay_days, next_plan_id, cp>>

ClearPlanSchedule(plan_id) ==
    /\ CanCall
    /\ ops' = ops + 1
    /\ IF plan_id \notin PlanIds
       THEN NotFound("clear_plan_schedule", plan_id)
       ELSE LET plan == GetPlan(plan_id)
                cleared == [i \in 1..Len(plan.stops) |->
                               [plan.stops[i] EXCEPT !.arrival = Empty,
                                                     !.departure = Empty,
                                                     !.skipped = FALSE]]
            IN  /\ plans' = WithPlan(plan_id, cleared, {})
                /\ last' = Call("clear_plan_schedule", TRUE, plan_id, plan, NoArgs)
                /\ Save(plans', next_plan_id, transition_days, stay_days)
                /\ UNCHANGED <<transition_days, stay_days, next_plan_id, cp>>

\* line 183: del plans[idx], pos being idx + 1
\* fault: the plans stored after the deleted one go with it
WithoutFrom(pl, pos) == SubSeq(pl, 1, pos - 1)

Without(pl, pos) == SubSeq(pl, 1, pos - 1) \o SubSeq(pl, pos + 1, Len(pl))

\* lines 168-177, called on its own: the plan is returned or ValueError raised
GetPlanCall(plan_id) ==
    /\ CanCall
    /\ ops' = ops + 1
    /\ IF plan_id \notin PlanIds
       THEN NotFound("get_plan", plan_id)
       ELSE /\ last' = Call("get_plan", TRUE, plan_id, GetPlan(plan_id), NoArgs)
            /\ UNCHANGED <<transition_days, stay_days, plans, next_plan_id, disk, cp>>

----------------------------------------------------------------------------
(* build_schedule_table *)

\* line 21: the marker of a cell no stop has filled
Placeholder == [form |-> "placeholder", day |-> 0]

\* lines 428-431: the route's ports, each appended the first time it is met
RECURSIVE PortColumns(_, _)
PortColumns(route, port_columns) ==
    IF route = <<>>
    THEN port_columns
    ELSE PortColumns(Tail(route),
                     IF \E i \in 1..Len(port_columns) : port_columns[i] = Head(route)
                     THEN port_columns
                     ELSE Append(port_columns, Head(route)))

\* line 433
RowsCount(plan) == (Len(plan.stops) + Len(plan.route) - 1) \div Len(plan.route)

\* line 436: a cell of a fresh row; stop_index None is written -1
EmptyCell == [arrival |-> Placeholder, departure |-> Placeholder, stop_index |-> -1]

\* lines 439-447: the stops from index idx on, each assigned to its cell
RECURSIVE FillRows(_, _, _, _)
FillRows(plan, port_columns, rows, idx) ==
    IF idx >= Len(plan.stops)
    THEN rows
    ELSE LET stop == plan.stops[idx + 1]
             row_idx == idx \div Len(plan.route)
             port == stop.port
         IN  FillRows(plan, port_columns,
                      IF \E i \in 1..Len(port_columns) : port_columns[i] = port
                      THEN [rows EXCEPT ![row_idx + 1][port] =
                               [arrival |-> stop.arrival, departure |-> stop.departure,
                                stop_index |-> idx]]
                      ELSE rows,
                      idx + 1)

\* lines 426-449: the table returned, rows numbered from 1
BuildScheduleTable(plan) ==
    LET port_columns == PortColumns(plan.route, <<>>)
        columns == {port_columns[i] : i \in 1..Len(port_columns)}
        rows == [r \in 1..RowsCount(plan) |-> [port \in columns |-> EmptyCell]]
    IN  [ports |-> port_columns, rows |-> FillRows(plan, port_columns, rows, 0)]

\* lines 424-449, called on its own
BuildScheduleTableCall(plan_id) ==
    /\ CanCall
    /\ ops' = ops + 1
    /\ IF plan_id \notin PlanIds
       THEN NotFound("build_schedule_table", plan_id)
       ELSE /\ last' = Call("build_schedule_table", TRUE, plan_id, GetPlan(plan_id),
                            [table |-> BuildScheduleTable(GetPlan(plan_id))])
            /\ UNCHANGED <<transition_days, stay_days, plans, next_plan_id, disk, cp>>

\* lines 179-186
DeletePlan(plan_id) ==
    /\ CanCall
    /\ ops' = ops + 1
    /\ IF plan_id \notin PlanIds
       THEN NotFound("delete_plan", plan_id)
       ELSE LET pos == PlanPos(plan_id)
            IN  /\ plans' = Without(plans, pos)
                /\ last' = Call("delete_plan", TRUE, plan_id, plans[pos], NoArgs)
                /\ Save(plans', next_plan_id, transition_days, stay_days)
                /\ UNCHANGED <<transition_days, stay_days, next_plan_id, cp>>

\* PlannerService has no attribute set_frozen_until (get_plan, line 175,
\* drops a stored "frozen_until" key): the call raises AttributeError
SetFrozenUntilCall(plan_id, date) ==
    /\ CanCall
    /\ ops' = ops + 1
    /\ last' = Call("set_frozen_until", FALSE, plan_id, NoPlan, [date |-> date])
    /\ UNCHANGED <<transition_days, stay_days, plans, next_plan_id, disk, cp>>

----------------------------------------------------------------------------
(* set_transition, set_stay *)

\* lines 408-414
\* fault: the entry of the opposite direction is set as well
SetTransitionBothWays(from_port, to_port, days) ==
    /\ CanCall
    /\ ops' = ops + 1
    /\ LET args == [from_port |-> from_port, to_port |-> to_port, days |-> days]
       IN  IF from_port \notin Ports \/ to_port \notin Ports \/ days < 0
           THEN /\ last' = Call("set_transition", FALSE, 0, NoPlan, args)
                /\ UNCHANGED <<transition_days, stay_days, plans, next_plan_id, disk, cp>>
           ELSE /\ transition_days' = [transition_days EXCEPT ![from_port][to_port] = days,
                                                              ![to_port][from_port] = days]
                /\ last' = Call("set_transition", TRUE, 0, NoPlan, args)
                /\ Save(plans, next_plan_id, transition_days', stay_days)
                /\ UNCHANGED <<stay_days, plans, next_plan_id, cp>>

SetTransition(from_port, to_port, days) ==
    /\ CanCall
    /\ ops' = ops + 1
    /\ LET args == [from_port |-> from_port, to_port |-> to_port, days |-> days]
       IN  IF from_port \notin Ports \/ to_port \notin Ports \/ days < 0
           THEN /\ last' = Call("set_transition", FALSE, 0, NoPlan, args)
                /\ UNCHANGED <<transition_days, stay_days, plans, next_plan_id, disk, cp>>
           ELSE /\ transition_days' = [transition_days EXCEPT ![from_port][to_port] = days]
                /\ last' = Call("set_transition", TRUE, 0, NoPlan, args)
                /\ Save(plans, next_plan_id, transition_days', stay_days)
                /\ UNCHANGED <<stay_days, plans, next_plan_id, cp>>

\* lines 416-422
SetStay(port, days) ==
    /\ CanCall
    /\ ops' = ops + 1
    /\ LET args == [port |-> port, days |-> days]
       IN  IF port \notin Ports \/ days < 0
           THEN /\ last' = Call("set_stay", FALSE, 0, NoPlan, args)
                /\ UNCHANGED <<transition_days, stay_days, plans, next_plan_id, disk, cp>>
           ELSE /\ stay_days' = [p \in DOMAIN stay_days \cup {port} |->
                                    IF p = port THEN days ELSE stay_days[p]]
                /\ last' = Call("set_stay", TRUE, 0, NoPlan, args)
                /\ Save(plans, next_plan_id, transition_days, stay_days')
                /\ UNCHANGED <<transition_days, plans, next_plan_id, cp>>

----------------------------------------------------------------------------
(* Inputs *)

\* create_plan calls: two valid ones, then an unknown ship, a route of one
\* port, a route with an unknown port, a start date that does not parse
CreateInputs ==
    {<<"S1", <<"A", "B">>, Iso(0)>>, <<"S1", <<"A", "A">>, Iso(0)>>,
     <<"S0", <<"A", "B">>, Iso(0)>>, <<"S1", <<"A">>, Iso(0)>>,
     <<"S1", <<"A", "X">>, Iso(0)>>, <<"S1", <<"A", "B">>, Malformed>>}

\* plan ids a caller names: the stored ones and one that is absent
PlanIdInputs == PlanIds \cup {next_plan_id}

\* the dates a caller submits
EditArrival == Iso(150)
EditDeparture == Iso(250)

\* the (arrival, departure) entries submitted for a stop: both empty, a valid
\* pair, a reversed pair, one date only, a malformed date, the stop's own
\* dates again, and the stop's own dates in the loose spelling
EntryInputs(stop) ==
    {<<Empty, Empty>>, <<EditArrival, EditDeparture>>, <<EditDeparture, EditArrival>>,
     <<EditArrival, Empty>>, <<Malformed, EditDeparture>>,
     <<stop.arrival, stop.departure>>}
    \cup (IF ParseOK(stop.arrival) /\ ParseOK(stop.departure)
          THEN {<<Loose(ParseDate(stop.arrival)), Loose(ParseDate(stop.departure))>>}
          ELSE {})

\* the entries of a two-entry batch, <<lower index's, higher index's>>
PairInputs ==
    {<<<<EditArrival, EditDeparture>>, <<EditArrival, Empty>>>>,
     <<<<EditArrival, EditDeparture>>, <<EditArrival, EditDeparture>>>>,
     <<<<Empty, Empty>>, <<EditArrival, EditDeparture>>>>}

\* the whole table resubmitted as it stands, stop k alone given new dates
FullTable(plan, k) ==
    [idx \in StopIndices(plan) |->
        IF idx = k
        THEN <<EditArrival, EditDeparture>>
        ELSE <<plan.stops[idx + 1].arrival, plan.stops[idx + 1].departure>>]

\* the batches submitted for a plan: empty, one entry (also for an index the
\* plan does not have), two entries, the whole table
BatchInputs(plan_id) ==
    IF plan_id \notin PlanIds
    THEN {<<>>}
    ELSE LET plan == GetPlan(plan_id)
             n == Len(plan.stops)
         IN  {<<>>}
             \cup {[i \in {n} |-> <<EditArrival, EditDeparture>>]}
             \cup {FullTable(plan, k) : k \in StopIndices(plan)}
             \cup UNION {{[i \in {idx} |-> e] : e \in EntryInputs(plan.stops[idx + 1])} :
                         idx \in StopIndices(plan)}
             \cup UNION {{[i \in {pr[1], pr[2]} |-> IF i = pr[1] THEN e[1] ELSE e[2]] :
                             e \in PairInputs} :
                         pr \in {q \in StopIndices(plan) \X StopIndices(plan) : q[1] < q[2]}}

\* <<arrival, departure, propagate>> of a single-stop edit; Empty is "not supplied"
SingleEditInputs ==
    {<<Empty, EditDeparture, TRUE>>, <<EditArrival, Empty, TRUE>>,
     <<Empty, EditDeparture, FALSE>>, <<EditArrival, Malformed, TRUE>>,
     <<Malformed, Empty, FALSE>>}

\* <<stop_index, <<arrival, departure, propagate>>>>: every edit on every stop
\* of the plan, and one edit on an index the plan does not have
ManualInputs(plan_id) ==
    IF plan_id \notin PlanIds
    THEN {<<0, <<Empty, EditDeparture, TRUE>>>>}
    ELSE (StopIndices(GetPlan(plan_id)) \X SingleEditInputs)
         \cup {<<Len(GetPlan(plan_id).stops), <<Empty, EditDeparture, TRUE>>>>}

\* the lists of periods a caller gives: none, one period, two periods out of
\* order with a repeat, a negative one, the first period past the last
FrozenRowsInputs(plan_id) ==
    IF plan_id \notin PlanIds
    THEN {<<>>}
    ELSE LET plan == GetPlan(plan_id)
             periods == (Len(plan.stops) + Len(plan.route) - 1) \div Len(plan.route)
         IN  {<<>>, <<0>>, <<1>>, <<1, 0, 1>>, <<-1>>, <<0, periods>>}

\* <<from_port, to_port, days>>
TransitionInputs ==
    {<<"A", "B", 0>>, <<"B", "A", 50>>, <<"X", "A", 0>>, <<"A", "X", 0>>, <<"A", "B", -1>>}

\* <<port, days>>
StayInputs == {<<"A", 0>>, <<"B", 0>>, <<"B", 50>>, <<"X", 0>>, <<"A", -1>>}

CreatePlanCalls == \E c \in CreateInputs :
    CreatePlanCall(c[1], c[2], c[3]) /\ UNCHANGED th

UpdatePlanFromManualTableCalls ==
    \E plan_id \in PlanIdInputs : \E manual_map \in BatchInputs(plan_id) :
        UpdatePlanFromManualTable(plan_id, manual_map) /\ UNCHANGED th

ManualUpdateStopCalls ==
    \E plan_id \in PlanIdInputs : \E m \in ManualInputs(plan_id) :
        ManualUpdateStop(plan_id, m[1], m[2][1], m[2][2], m[2][3]) /\ UNCHANGED th

SetFrozenRowsCalls ==
    \E plan_id \in PlanIdInputs : \E frozen_rows \in FrozenRowsInputs(plan_id) :
        SetFrozenRows(plan_id, frozen_rows) /\ UNCHANGED th

ClearPlanScheduleCalls == \E plan_id \in PlanIdInputs :
    ClearPlanSchedule(plan_id) /\ UNCHANGED th

DeletePlanCalls == \E plan_id \in PlanIdInputs :
    DeletePlan(plan_id) /\ UNCHANGED th

GetPlanCalls == \E plan_id \in PlanIdInputs :
    GetPlanCall(plan_id) /\ UNCHANGED th

BuildScheduleTableCalls == \E plan_id \in PlanIdInputs :
    BuildScheduleTableCall(plan_id) /\ UNCHANGED th

\* the cutoff a caller gives: the departure of stop 1 of the plan
CutoffInputs(plan_id) ==
    IF plan_id \in PlanIds /\ Len(GetPlan(plan_id).stops) >= 2
    THEN {GetPlan(plan_id).stops[2].departure}
    ELSE {EditDeparture}

SetFrozenUntilCalls ==
    \E plan_id \in PlanIdInputs : \E date \in CutoffInputs(plan_id) :
        SetFrozenUntilCall(plan_id, date) /\ UNCHANGED th

SetTransitionCalls == \E t \in TransitionInputs :
    SetTransition(t[1], t[2], t[3]) /\ UNCHANGED th

SetStayCalls == \E t \in StayInputs :
    SetStay(t[1], t[2]) /\ UNCHANGED th

Next ==
    \/ CreatePlanCalls
    \/ CreatePlanStep
    \/ CreatePlanReturn
    \/ UpdatePlanFromManualTableCalls
    \/ ManualUpdateStopCalls
    \/ SetFrozenRowsCalls
    \/ ClearPlanScheduleCalls
    \/ DeletePlanCalls
    \/ GetPlanCalls
    \/ BuildScheduleTableCalls
    \/ SetFrozenUntilCalls
    \/ SetTransitionCalls
    \/ SetStayCalls

Spec == Init /\ [][Next]_vars

----------------------------------------------------------------------------
(* A document loaded from the file of an earlier run: it holds the plan    *)
(* create_plan("S1", ["A", "B"], day 0) generated and stored.              *)

\* lines 135-149: the loop run to its end, from frame f on
RECURSIVE Generated(_)
Generated(f) ==
    IF LoopCondition(f) /\ Len(f.stops) < MaxStops
    THEN LET stop == GenStop(f)
         IN  Generated([f EXCEPT !.stops = Append(@, stop),
                                 !.current_departure = ParseDate(stop.departure),
                                 !.idx = @ + 1])
    ELSE f.stops

\* lines 154-162: the plan create_plan builds from its arguments and stops
GeneratedPlan(id, ship, route, start_date) ==
    Plan(id, ship, route, start_date,
         FmtDate(ParseDate(start_date) + PLAN_HORIZON_DAYS),
         Generated(LoopFrame(ship, route, start_date)), {})

LoadedDocument ==
    /\ transition_days = InitTransition
    /\ stay_days = [p \in {"A"} |-> LongStay]
    /\ plans = <<GeneratedPlan(1, "S1", <<"A", "B">>, Iso(0))>>
    /\ next_plan_id = Len(plans) + 1
    /\ disk = Document(plans, next_plan_id, transition_days, stay_days)
    /\ cp = IdleFrame
    /\ last = Call("start", TRUE, 0, NoPlan, NoArgs)
    /\ ops = 0

InitLoaded == LoadedDocument /\ th = NoThreads

\* a pass with no entry, an anchor, a skip request
SmallBatchInputs ==
    {<<>>, [i \in {1} |-> <<EditArrival, EditDeparture>>], [i \in {0} |-> <<Empty, Empty>>]}

ReconcileCalls ==
    \E plan_id \in PlanIdInputs : \E manual_map \in SmallBatchInputs :
        UpdatePlanFromManualTable(plan_id, manual_map) /\ UNCHANGED th

\* clearing, freezing and reconciling the loaded plan
NextLoaded ==
    \/ ClearPlanScheduleCalls
    \/ SetFrozenRowsCalls
    \/ ReconcileCalls

SpecLoaded == InitLoaded /\ [][NextLoaded]_vars

----------------------------------------------------------------------------
(* Request threads.  run_server serves every request on a thread of its    *)
(* own (ThreadingHTTPServer) and the service takes no lock, so the threads *)
(* interleave between any two accesses of the shared document.  Each       *)
(* thread serves one request; a step is one access of db.data.             *)

Threads == {1, 2}

IdleThread == [pc |-> "idle", op |-> "none"]

InitThreads == LoadedDocument /\ th = [t \in Threads |-> IdleThread]

SharedRest == <<transition_days, stay_days, cp, last, ops>>

\* lines 120-149: validation and the loop, which touch no shared plan data
TBeginCreate(t, ship, route, start_date) ==
    /\ th[t].pc = "idle"
    /\ CreateValid(ship, route, start_date)
    /\ th' = [th EXCEPT ![t] =
                 [pc |-> "read_id", op |-> "create_plan", ship |-> ship, route |-> route,
                  start_date |-> start_date,
                  stops |-> Generated(LoopFrame(ship, route, start_date)),
                  plan_id |-> 0, counter |-> 0]]
    /\ UNCHANGED <<plans, next_plan_id, disk, SharedRest>>

\* line 151: plan_id = self.db.data["next_plan_id"]
TReadId(t) ==
    /\ th[t].pc = "read_id"
    /\ th' = [th EXCEPT ![t].plan_id = next_plan_id, ![t].pc = "load_counter"]
    /\ UNCHANGED <<plans, next_plan_id, disk, SharedRest>>

\* line 152, self.db.data["next_plan_id"] += 1: the load
TLoadCounter(t) ==
    /\ th[t].pc = "load_counter"
    /\ th' = [th EXCEPT ![t].counter = next_plan_id, ![t].pc = "store_counter"]
    /\ UNCHANGED <<plans, next_plan_id, disk, SharedRest>>

\* line 152: the store
TStoreCounter(t) ==
    /\ th[t].pc = "store_counter"
    /\ next_plan_id' = th[t].counter + 1
    /\ th' = [th EXCEPT ![t].pc = "append"]
    /\ UNCHANGED <<plans, disk, SharedRest>>

\* lines 154-164: the plan is built and appended
TAppend(t) ==
    /\ th[t].pc = "append"
    /\ plans' = Append(plans,
                       Plan(th[t].plan_id, th[t].ship, th[t].route, th[t].start_date,
                            FmtDate(ParseDate(th[t].start_date) + PLAN_HORIZON_DAYS),
                            th[t].stops, {}))
    /\ th' = [th EXCEPT ![t].pc = "save"]
    /\ UNCHANGED <<next_plan_id, disk, SharedRest>>

\* lines 165 and 320: self.db.save(), then the call returns
TSave(t) ==
    /\ th[t].pc = "save"
    /\ Save(plans, next_plan_id, transition_days, stay_days)
    /\ th' = [th EXCEPT ![t].pc = "done"]
    /\ UNCHANGED <<plans, next_plan_id, SharedRest>>

\* lines 244-254: get_plan and frozen_indices
TBeginUpdate(t, plan_id, manual_map) ==
    /\ th[t].pc = "idle"
    /\ plan_id \in PlanIds
    /\ th' = [th EXCEPT ![t] =
                 [pc |-> "first", op |-> "update_plan_from_manual_table",
                  plan_id |-> plan_id, manual_map |-> manual_map,
                  before |-> GetPlan(plan_id).stops,
                  frozen_indices |-> FrozenIndices(GetPlan(plan_id)),
                  locked |-> {}, idx |-> 0, prev_port |-> None,
                  current_departure |-> ParseDate(GetPlan(plan_id).start_date)]]
    /\ UNCHANGED <<plans, next_plan_id, disk, SharedRest>>

\* lines 256-287: one iteration of the first loop, or its end (lines 289-291)
TFirstLoop(t) ==
    /\ th[t].pc = "first"
    /\ LET f == th[t]
           plan == GetPlan(f.plan_id)
       IN  IF f.idx >= Len(plan.stops)
           THEN /\ th' = [th EXCEPT ![t].pc = "second", ![t].idx = 0]
                /\ UNCHANGED plans
           ELSE IF f.idx \notin DOMAIN f.manual_map \/ f.idx \in f.frozen_indices
           THEN /\ th' = [th EXCEPT ![t].idx = f.idx + 1]
                /\ UNCHANGED plans
           ELSE LET r == ApplyEntry(plan.stops[f.idx + 1], f.manual_map[f.idx])
                IN  IF r.raised
                    THEN /\ th' = [th EXCEPT ![t].pc = "raised"]
                         /\ UNCHANGED plans
                    ELSE /\ plans' = WithPlan(f.plan_id,
                                              [plan.stops EXCEPT ![f.idx + 1] = r.stop],
                                              plan.frozen_rows)
                         /\ th' = [th EXCEPT ![t].idx = f.idx + 1,
                                             ![t].locked = IF r.locked
                                                           THEN f.locked \cup {f.idx}
                                                           ELSE f.locked]
    /\ UNCHANGED <<next_plan_id, disk, SharedRest>>

\* lines 292-318: one iteration of the second loop, or its end
TSecondLoop(t) ==
    /\ th[t].pc = "second"
    /\ LET f == th[t]
           plan == GetPlan(f.plan_id)
       IN  IF f.idx >= Len(plan.stops)
           THEN /\ th' = [th EXCEPT ![t].pc = "save"]
                /\ UNCHANGED plans
           ELSE LET r == ChainStep(plan.stops[f.idx + 1], f.idx, f.prev_port,
                                   f.current_departure, f.locked, f.frozen_indices)
                IN  /\ plans' = WithPlan(f.plan_id,
                                         [plan.stops EXCEPT ![f.idx + 1] = r.stop],
                                         plan.frozen_rows)
                    /\ th' = [th EXCEPT ![t].idx = f.idx + 1,
                                        ![t].prev_port = r.prev_port,
                                        ![t].current_departure = r.current_departure]
    /\ UNCHANGED <<next_plan_id, disk, SharedRest>>

\* lines 168-177 and the rendering of the plan returned: a reader takes the
\* stops of the plan as they are at one instant
TRead(t, plan_id) ==
    /\ th[t].pc = "idle"
    /\ plan_id \in PlanIds
    /\ th' = [th EXCEPT ![t] = [pc |-> "done", op |-> "read", plan_id |-> plan_id,
                                observed |-> GetPlan(plan_id).stops]]
    /\ UNCHANGED <<plans, next_plan_id, disk, SharedRest>>

\* the batches of the concurrent passes: none, an anchor on stop 1
ThreadBatchInputs == {<<>>, [i \in {1} |-> <<EditArrival, EditDeparture>>]}

TBeginCreates == \E t \in Threads : TBeginCreate(t, "S1", <<"A", "B">>, Iso(0))
TReadIds == \E t \in Threads : TReadId(t)
TLoadCounters == \E t \in Threads : TLoadCounter(t)
TStoreCounters == \E t \in Threads : TStoreCounter(t)
TAppends == \E t \in Threads : TAppend(t)
TSaves == \E t \in Threads : TSave(t)
TBeginUpdates ==
    \E t \in Threads : \E manual_map \in ThreadBatchInputs : TBeginUpdate(t, 1, manual_map)
TFirstLoops == \E t \in Threads : TFirstLoop(t)
TSecondLoops == \E t \in Threads : TSecondLoop(t)
TReads == \E t \in Threads : TRead(t, 1)

NextThreads ==
    \/ TBeginCreates
    \/ TReadIds
    \/ TLoadCounters
    \/ TStoreCounters
    \/ TAppends
    \/ TSaves
    \/ TBeginUpdates
    \/ TFirstLoops
    \/ TSecondLoops
    \/ TReads

SpecThreads == InitThreads /\ [][NextThreads]_vars

----------------------------------------------------------------------------
(* Vocabulary of the properties.  These read the state and the recorded    *)
(* call only; they do not use the operators that model the handlers.       *)

UpdateDone == last.op = "update_plan_from_manual_table" /\ last.before # NoPlan
UpdateOK == UpdateDone /\ last.ok
UpdateRaised == UpdateDone /\ ~last.ok
ManualDone == last.op = "manual_update_stop" /\ last.before # NoPlan
ManualRaised == ManualDone /\ ~last.ok
CreateOK == last.op = "create_plan" /\ last.ok

\* the plan the last call worked on, as it is now / the stops as they were
After == GetPlan(last.plan_id)
Before == last.before
Indices == 0..(Len(Before.stops) - 1)
Submitted(idx) == idx \in DOMAIN last.args.manual_map
Entry(idx) == last.args.manual_map[idx]

RuleStay(port) == IF port \in DOMAIN stay_days THEN stay_days[port] ELSE 1
RuleTransition(from_port, to_port) == transition_days[from_port][to_port]

Dated(stop) == stop.arrival # Empty /\ stop.departure # Empty
Undated(stop) == stop.arrival = Empty /\ stop.departure = Empty
Day(s) == s.day
IsDate(s) == s.form \in {"iso", "loose"}
SameDates(s, t) == s.arrival = t.arrival /\ s.departure = t.departure
PeriodOf(plan, idx) == idx \div Len(plan.route)
PeriodStops(plan, row) == {idx \in 0..(Len(plan.stops) - 1) : PeriodOf(plan, idx) = row}

\* frozen for the pass: period frozen and the stop fully dated or skipped before it
WasFrozen(idx) ==
    /\ PeriodOf(Before, idx) \in Before.frozen_rows
    /\ (Dated(Before.stops[idx + 1]) \/ Before.stops[idx + 1].skipped)

\* anchored by the batch: not frozen, both dates submitted, not the dates it held
WasAnchored(idx) ==
    /\ Submitted(idx)
    /\ ~WasFrozen(idx)
    /\ Entry(idx)[1] # Empty /\ Entry(idx)[2] # Empty
    /\ (Entry(idx)[1] # Before.stops[idx + 1].arrival
        \/ Entry(idx)[2] # Before.stops[idx + 1].departure)

\* skip requested: not frozen, both dates submitted empty, held a date before
WasSkipRequested(idx) ==
    /\ Submitted(idx)
    /\ ~WasFrozen(idx)
    /\ Entry(idx)[1] = Empty /\ Entry(idx)[2] = Empty
    /\ ~Undated(Before.stops[idx + 1])

IsDerived(idx) == ~After.stops[idx + 1].skipped /\ ~WasFrozen(idx) /\ ~WasAnchored(idx)

Max(S) == CHOOSE x \in S : \A y \in S : y <= x
Min(S) == CHOOSE x \in S : \A y \in S : x <= y
\* the non-skipped stops before / after idx, as the plan is now
LiveBefore(idx) == {j \in Indices : j < idx /\ ~After.stops[j + 1].skipped}
LiveAfter(idx) == {j \in Indices : j > idx /\ ~After.stops[j + 1].skipped}

\* stop idx is chained to stop p: arrives transition(port p, its port) days after p leaves
ChainedTo(idx, p) ==
    /\ IsDate(After.stops[idx + 1].arrival)
    /\ Day(After.stops[idx + 1].arrival) =
           Day(After.stops[p + 1].departure)
           + RuleTransition(After.stops[p + 1].port, After.stops[idx + 1].port)

StaysItsStay(stop) ==
    /\ IsDate(stop.departure)
    /\ Day(stop.departure) = Day(stop.arrival) + RuleStay(stop.port)

----------------------------------------------------------------------------
(* C1 - After a successful update_plan_from_manual_table every stop that   *)
(* is not skipped, not frozen and not anchored by the batch arrives on the *)
(* plan's start date when no non-skipped stop precedes it, and otherwise   *)
(* transition(port[p], its port) days after the departure of the nearest   *)
(* preceding non-skipped stop p; it departs stay(its port) days after it   *)
(* arrives.                                                                *)
C1_DerivedStopsFollowChain ==
    UpdateOK =>
        \A idx \in Indices :
            IsDerived(idx) =>
                /\ IF LiveBefore(idx) = {}
                   THEN /\ IsDate(After.stops[idx + 1].arrival)
                        /\ Day(After.stops[idx + 1].arrival) = Day(After.start_date)
                   ELSE ChainedTo(idx, Max(LiveBefore(idx)))
                /\ StaysItsStay(After.stops[idx + 1])

\* a successful pass re-derived a stop from an anchored predecessor and moved it
C1_Witness ==
    /\ UpdateOK
    /\ \E idx \in Indices :
        /\ IsDerived(idx)
        /\ LiveBefore(idx) # {}
        /\ WasAnchored(Max(LiveBefore(idx)))
        /\ ~SameDates(After.stops[idx + 1], Before.stops[idx + 1])

(* C2 - If a period is in frozen_rows and each of its stops is fully dated *)
(* or skipped, no update_plan_from_manual_table call, successful or not,   *)
(* whatever indices its batch names, changes the arrival, departure or     *)
(* skipped flag of a stop of that period.                                  *)
C2_FrozenPeriodUntouched ==
    UpdateDone =>
        \A row \in Before.frozen_rows :
            (\A idx \in PeriodStops(Before, row) :
                Dated(Before.stops[idx + 1]) \/ Before.stops[idx + 1].skipped)
            => \A idx \in PeriodStops(Before, row) :
                   After.stops[idx + 1] = Before.stops[idx + 1]

\* a pass whose batch named a stop of a frozen, fully dated period with new
\* dates, and a stop outside it, and that changed a stop outside it
C2_Witness ==
    /\ UpdateDone
    /\ \E row \in Before.frozen_rows :
        /\ PeriodStops(Before, row) # {}
        /\ \A idx \in PeriodStops(Before, row) : Dated(Before.stops[idx + 1])
        /\ \E idx \in PeriodStops(Before, row) :
            /\ Submitted(idx)
            /\ Entry(idx) # <<Before.stops[idx + 1].arrival, Before.stops[idx + 1].departure>>
        /\ \E idx \in Indices \ PeriodStops(Before, row) :
            /\ Submitted(idx)
            /\ After.stops[idx + 1] # Before.stops[idx + 1]

(* C3 - A batch entry with both dates empty for a stop that is already     *)
(* skipped leaves it skipped with both dates empty.                        *)
C3_SkipIsIdempotent ==
    UpdateDone =>
        \A idx \in Indices :
            (/\ Before.stops[idx + 1].skipped
             /\ Undated(Before.stops[idx + 1])
             /\ Submitted(idx)
             /\ Entry(idx) = <<Empty, Empty>>)
            => /\ After.stops[idx + 1].skipped
               /\ Undated(After.stops[idx + 1])

(* C4 - When update_plan_from_manual_table raises, every stop of the plan  *)
(* has the arrival, departure and skipped flag it had before the call.     *)
C4_RejectedBatchLeavesPlan ==
    UpdateRaised => After.stops = Before.stops

(* C5 - When manual_update_stop raises, every stop of the plan has the     *)
(* arrival and departure it had before the call.                           *)
C5_RejectedEditLeavesPlan ==
    ManualRaised =>
        \A idx \in Indices : SameDates(After.stops[idx + 1], Before.stops[idx + 1])

(* C6 - In a successful batch edit a non-frozen stop submitted with two    *)
(* non-empty dates, at least one differing from the date it held, holds    *)
(* exactly the submitted arrival and departure afterwards, is not skipped, *)
(* and is the chain anchor of what follows: the next non-skipped stop, if  *)
(* derived, arrives transition(its port, that port) days after the         *)
(* submitted departure.                                                    *)
C6_AnchoredStopKeepsDates ==
    UpdateOK =>
        \A idx \in Indices :
            WasAnchored(idx) =>
                /\ After.stops[idx + 1].arrival = Entry(idx)[1]
                /\ After.stops[idx + 1].departure = Entry(idx)[2]
                /\ ~After.stops[idx + 1].skipped
                /\ (LiveAfter(idx) # {} /\ IsDerived(Min(LiveAfter(idx))))
                   => /\ IsDate(After.stops[Min(LiveAfter(idx)) + 1].arrival)
                      /\ Day(After.stops[Min(LiveAfter(idx)) + 1].arrival) =
                            Day(Entry(idx)[2])
                            + RuleTransition(After.stops[idx + 1].port,
                                             After.stops[Min(LiveAfter(idx)) + 1].port)

\* a successful pass anchored a stop that a derived stop follows
C6_Witness ==
    /\ UpdateOK
    /\ \E idx \in Indices :
        /\ WasAnchored(idx)
        /\ LiveAfter(idx) # {}
        /\ IsDerived(Min(LiveAfter(idx)))

(* C7 - In a successful batch edit an entry with both dates empty for a    *)
(* non-frozen stop that held a date makes the stop skipped with both dates *)
(* empty, and the pass leaves it out of the chain: the next non-skipped    *)
(* stop, if derived, is chained to the nearest non-skipped stop before the *)
(* skipped one.                                                            *)
C7_SkipRequestLeavesChain ==
    UpdateOK =>
        \A idx \in Indices :
            WasSkipRequested(idx) =>
                /\ After.stops[idx + 1].skipped
                /\ Undated(After.stops[idx + 1])
                /\ (/\ LiveAfter(idx) # {}
                    /\ IsDerived(Min(LiveAfter(idx)))
                    /\ LiveBefore(idx) # {})
                   => ChainedTo(Min(LiveAfter(idx)), Max(LiveBefore(idx)))

\* a successful pass skipped a stop lying between two non-skipped stops, the
\* later one derived
C7_Witness ==
    /\ UpdateOK
    /\ \E idx \in Indices :
        /\ WasSkipRequested(idx)
        /\ LiveAfter(idx) # {}
        /\ IsDerived(Min(LiveAfter(idx)))
        /\ LiveBefore(idx) # {}

(* C8 - For every valid create_plan(ship, route, start): stop 0 arrives on *)
(* the start date; for i >= 1, arrival[i] = departure[i-1] +               *)
(* transition(port[i-1], port[i]); for every i, departure[i] = arrival[i]  *)
(* + stay(port[i]) with stay 1 when unset, port[i] = route[i mod           *)
(* len(route)] and skipped = false; hence arrival[i+1] >= departure[i].    *)
C8_GeneratedChain ==
    CreateOK =>
        LET plan == After
            n == Len(plan.stops)
        IN  /\ n >= 1
            /\ plan.route = last.args.route
            /\ IsDate(plan.stops[1].arrival)
            /\ Day(plan.stops[1].arrival) = Day(last.args.start_date)
            /\ \A i \in 0..(n - 1) :
                /\ plan.stops[i + 1].port = plan.route[(i % Len(plan.route)) + 1]
                /\ ~plan.stops[i + 1].skipped
                /\ IsDate(plan.stops[i + 1].arrival)
                /\ StaysItsStay(plan.stops[i + 1])
            /\ \A i \in 1..(n - 1) :
                /\ Day(plan.stops[i + 1].arrival) =
                       Day(plan.stops[i].departure)
                       + RuleTransition(plan.stops[i].port, plan.stops[i + 1].port)
                /\ Day(plan.stops[i + 1].arrival) >= Day(plan.stops[i].departure)

\* a plan was generated over a port without a stay entry and with a
\* transition that takes time
C8_Witness ==
    /\ CreateOK
    /\ Len(After.stops) >= 3
    /\ \E i \in 1..Len(After.stops) : After.stops[i].port \notin DOMAIN stay_days
    /\ \E i \in 1..(Len(After.stops) - 1) :
           RuleTransition(After.stops[i].port, After.stops[i + 1].port) > 0

(* C9 - create_plan terminates for every valid route, start date and       *)
(* timing table with non-negative entries.  The loop is deterministic and  *)
(* an iteration reads only current_departure, the route position idx mod   *)
(* len(route) and the last stop's port, so it terminates only if it never  *)
(* comes back, after a whole number of route cycles, to the                *)
(* current_departure it already had: stated on the running call, no two    *)
(* iterations a whole number of cycles apart end on the same departure.    *)
C9_CreatePlanTerminates ==
    cp.pc = "loop" =>
        \A i, j \in 1..Len(cp.stops) :
            (i < j /\ (j - i) % Len(cp.route) = 0)
            => Day(cp.stops[i].departure) # Day(cp.stops[j].departure)

(* C10 - manual_update_stop, with or without propagation, does not change  *)
(* the arrival or departure of a fully dated stop whose period is in       *)
(* frozen_rows.                                                            *)
C10_SingleEditSparesFrozen ==
    ManualDone =>
        \A idx \in Indices :
            (PeriodOf(Before, idx) \in Before.frozen_rows /\ Dated(Before.stops[idx + 1]))
            => SameDates(After.stops[idx + 1], Before.stops[idx + 1])

(* C11 - update_plan_from_manual_table rejects every batch that holds,    *)
(* for a stop index of the plan, an entry with exactly one of arrival and  *)
(* departure non-empty, or an entry whose departure is earlier than its    *)
(* arrival.                                                                *)
OneDateOnly(entry) == (entry[1] = Empty) # (entry[2] = Empty)
DepartsBeforeArriving(entry) ==
    IsDate(entry[1]) /\ IsDate(entry[2]) /\ Day(entry[2]) < Day(entry[1])

C11_InvalidEntryRejected ==
    UpdateDone =>
        ((\E idx \in Indices :
             Submitted(idx) /\ (OneDateOnly(Entry(idx)) \/ DepartsBeforeArriving(Entry(idx))))
         => ~last.ok)

----------------------------------------------------------------------------
ManualOK == ManualDone /\ last.ok
AllDated(plan) == \A i \in 1..Len(plan.stops) : Dated(plan.stops[i])
Supplied(s) == s # Empty

\* stop idx has both dates d days later than before the call
MovedBy(idx, d) ==
    /\ IsDate(After.stops[idx + 1].arrival)
    /\ IsDate(After.stops[idx + 1].departure)
    /\ Day(After.stops[idx + 1].arrival) = Day(Before.stops[idx + 1].arrival) + d
    /\ Day(After.stops[idx + 1].departure) = Day(Before.stops[idx + 1].departure) + d
    /\ After.stops[idx + 1].port = Before.stops[idx + 1].port
    /\ After.stops[idx + 1].skipped = Before.stops[idx + 1].skipped

\* the day delta of the edited stop k: the departure's, or the arrival's if
\* the departure did not move
EditDelta(k) ==
    IF Day(After.stops[k + 1].departure) # Day(Before.stops[k + 1].departure)
    THEN Day(After.stops[k + 1].departure) - Day(Before.stops[k + 1].departure)
    ELSE Day(After.stops[k + 1].arrival) - Day(Before.stops[k + 1].arrival)

(* C12 - A successful manual_update_stop on a plan whose stops are all     *)
(* dated leaves the stops before the edited index unchanged, gives the     *)
(* edited stop the supplied fields (an unsupplied field keeps its value)   *)
(* and, with propagate = true, moves both dates of every later stop by     *)
(* exactly d days, d being the departure's delta if non-zero and the       *)
(* arrival's otherwise; with propagate = false no other stop changes.      *)
C12_SingleEditShiftsFollowing ==
    (ManualOK /\ AllDated(Before)) =>
        LET k == last.args.stop_index
        IN  /\ k \in Indices
            /\ Len(After.stops) = Len(Before.stops)
            /\ \A idx \in Indices : idx < k => After.stops[idx + 1] = Before.stops[idx + 1]
            /\ After.stops[k + 1].arrival =
                   (IF Supplied(last.args.arrival) THEN last.args.arrival
                    ELSE Before.stops[k + 1].arrival)
            /\ After.stops[k + 1].departure =
                   (IF Supplied(last.args.departure) THEN last.args.departure
                    ELSE Before.stops[k + 1].departure)
            /\ \A idx \in Indices :
                   idx > k =>
                       IF last.args.propagate
                       THEN MovedBy(idx, EditDelta(k))
                       ELSE After.stops[idx + 1] = Before.stops[idx + 1]

\* a propagated edit of the arrival alone moved the stops after it
C12_Witness ==
    /\ ManualOK
    /\ AllDated(Before)
    /\ last.args.propagate
    /\ ~Supplied(last.args.departure)
    /\ last.args.stop_index >= 1
    /\ last.args.stop_index + 1 \in Indices
    /\ EditDelta(last.args.stop_index) # 0

----------------------------------------------------------------------------
\* this step is a call of the service method op that has returned or raised
\* (a create_plan that passed validation is still in its loop)
Calls(op) == ops' = ops + 1 /\ cp'.pc = "idle" /\ last'.op = op

(* C13 - Round trip: create_plan followed immediately, the timing rules    *)
(* unchanged, by update_plan_from_manual_table with an empty batch and an  *)
(* empty frozen set succeeds and leaves a stop sequence identical to the   *)
(* generated one: same ports, arrivals, departures and skipped flags.      *)
C13_RoundTrip ==
    [][(/\ CreateOK
        /\ Calls("update_plan_from_manual_table")
        /\ last'.plan_id = last.plan_id
        /\ last'.args.manual_map = <<>>
        /\ GetPlan(last.plan_id).frozen_rows = {})
       => /\ last'.ok
          /\ GetPlan(last.plan_id)'.stops = GetPlan(last.plan_id).stops]_vars

\* the second call made was a successful pass with an empty batch, so it
\* followed the create_plan that made its plan; the plan visits a port
\* without a stay entry
C13_Witness ==
    /\ ops = 2
    /\ UpdateOK
    /\ last.args.manual_map = <<>>
    /\ Before.frozen_rows = {}
    /\ Len(After.stops) >= 3
    /\ \E i \in 1..Len(After.stops) : After.stops[i].port \notin DOMAIN stay_days

----------------------------------------------------------------------------
\* the batch resubmits stop idx with exactly the dates it holds
Resubmitted(idx) ==
    /\ Submitted(idx)
    /\ Dated(Before.stops[idx + 1])
    /\ Entry(idx) = <<Before.stops[idx + 1].arrival, Before.stops[idx + 1].departure>>

\* stop idx carries what the chain gives it
FollowsChain(idx) ==
    /\ ~After.stops[idx + 1].skipped
    /\ IF LiveBefore(idx) = {}
       THEN /\ IsDate(After.stops[idx + 1].arrival)
            /\ Day(After.stops[idx + 1].arrival) = Day(After.start_date)
       ELSE ChainedTo(idx, Max(LiveBefore(idx)))
    /\ StaysItsStay(After.stops[idx + 1])

\* the whole table came back, stop k alone with other dates than it held
WholeTableWithOneChange(k) ==
    /\ \A idx \in Indices : Submitted(idx)
    /\ WasAnchored(k)
    /\ \A idx \in Indices \ {k} : Resubmitted(idx)

(* C14 - In a successful batch edit an entry that resubmits a non-frozen   *)
(* stop with exactly the dates it already holds does not anchor it: the    *)
(* stop carries the dates the chain gives it.  So when the whole table is  *)
(* resubmitted and only stop k changed, stop k holds its submitted dates,  *)
(* the next stop is chained to stop k's submitted departure and every      *)
(* later non-frozen stop follows the chain instead of keeping the dates    *)
(* resubmitted for it.                                                     *)
C14_ResubmittedStopIsDerived ==
    UpdateOK =>
        /\ \A idx \in Indices :
               (Resubmitted(idx) /\ ~WasFrozen(idx)) => FollowsChain(idx)
        /\ \A k \in Indices :
               WholeTableWithOneChange(k) =>
                   /\ After.stops[k + 1].arrival = Entry(k)[1]
                   /\ After.stops[k + 1].departure = Entry(k)[2]
                   /\ (k + 1 \in Indices /\ ~WasFrozen(k + 1)) =>
                          /\ IsDate(After.stops[k + 2].arrival)
                          /\ Day(After.stops[k + 2].arrival) =
                                 Day(Entry(k)[2])
                                 + RuleTransition(After.stops[k + 1].port,
                                                  After.stops[k + 2].port)

\* the whole table was resubmitted with one stop changed, and a later stop
\* did not keep the dates resubmitted for it
C14_Witness ==
    /\ UpdateOK
    /\ \E k \in Indices :
        /\ WholeTableWithOneChange(k)
        /\ \E idx \in Indices :
            /\ idx > k
            /\ ~WasFrozen(idx)
            /\ ~SameDates(After.stops[idx + 1], Before.stops[idx + 1])

----------------------------------------------------------------------------
\* a stop the reconciliation pass treats as frozen
FrozenIn(plan, idx) ==
    /\ PeriodOf(plan, idx) \in plan.frozen_rows
    /\ (Dated(plan.stops[idx + 1]) \/ plan.stops[idx + 1].skipped)

\* stops idx and idx + 1 are both dated, neither skipped nor frozen
PlainPair(plan, idx) ==
    /\ ~plan.stops[idx + 1].skipped /\ ~plan.stops[idx + 2].skipped
    /\ Dated(plan.stops[idx + 1]) /\ Dated(plan.stops[idx + 2])
    /\ ~FrozenIn(plan, idx) /\ ~FrozenIn(plan, idx + 1)

\* every such pair is in order: the later stop arrives no earlier than the
\* earlier one leaves
Chronological(plan) ==
    \A idx \in 0..(Len(plan.stops) - 2) :
        PlainPair(plan, idx) =>
            Day(plan.stops[idx + 2].arrival) >= Day(plan.stops[idx + 1].departure)

EditOK ==
    /\ last.op \in {"update_plan_from_manual_table", "manual_update_stop",
                    "set_frozen_rows"}
    /\ last.ok
    /\ last.before # NoPlan

(* C15 - In every plan state reached by create_plan followed by successful *)
(* batch edits, single-stop edits and freeze changes, two consecutive      *)
(* non-skipped stops i < j with no skipped and no frozen stop between or   *)
(* among them satisfy arrival[j] >= departure[i].  A generated plan has    *)
(* the property (C8), so the claim is that each successful edit keeps it:  *)
(* a plan that had it before a successful edit has it afterwards.          *)
C15_EditsKeepChronology ==
    (EditOK /\ Chronological(Before)) => Chronological(After)

(* C16 - In every reachable plan state, the state a rejected edit leaves   *)
(* behind included, every non-skipped stop with both dates set has         *)
(* departure >= arrival.                                                   *)
C16_DepartureNotBeforeArrival ==
    \A p \in 1..Len(plans) :
        \A i \in 1..Len(plans[p].stops) :
            (~plans[p].stops[i].skipped /\ Dated(plans[p].stops[i]))
            => Day(plans[p].stops[i].departure) >= Day(plans[p].stops[i].arrival)

----------------------------------------------------------------------------
(* C17 - create_plan sets end_date = start_date + 365 days whatever the    *)
(* number of stops, generates at least one stop, and stops generating as   *)
(* soon as the running departure reaches the end date: every stop but the  *)
(* last departs before end_date and the last departs on or after it.       *)
C17_HorizonEndsGeneration ==
    CreateOK =>
        LET plan == After
            n == Len(plan.stops)
        IN  /\ IsDate(plan.end_date)
            /\ Day(plan.end_date) = Day(last.args.start_date) + 365
            /\ plan.start_date = last.args.start_date
            /\ n >= 1
            /\ \A i \in 1..(n - 1) :
                   Day(plan.stops[i].departure) < Day(plan.end_date)
            /\ Day(plan.stops[n].departure) >= Day(plan.end_date)

\* a generated plan of several stops whose last stop leaves after the end
\* date, not on it
C17_Witness ==
    /\ CreateOK
    /\ Len(After.stops) >= 3
    /\ Day(After.stops[Len(After.stops)].departure) > Day(After.end_date)
    /\ Day(After.stops[Len(After.stops)].arrival) < Day(After.end_date)

----------------------------------------------------------------------------
\* the ids of the stored plans differ pairwise and are all below the counter
StoredIdsDistinct ==
    /\ \A i, j \in 1..Len(plans) : i # j => plans[i].id # plans[j].id
    /\ \A i \in 1..Len(plans) : plans[i].id < next_plan_id

\* the counter never goes back, so it stays above every id ever assigned; a
\* step that stores a plan is a successful create_plan whose id is at least
\* the counter and below the new counter; a rejected create_plan and a
\* delete_plan leave the counter alone
IdsOnlyGrow ==
    /\ next_plan_id' >= next_plan_id
    /\ Len(plans') > Len(plans) =>
           /\ last'.op = "create_plan" /\ last'.ok
           /\ last'.plan_id >= next_plan_id
           /\ last'.plan_id < next_plan_id'
           /\ \E i \in 1..Len(plans') : plans'[i].id = last'.plan_id
    /\ (Calls("create_plan") /\ ~last'.ok) =>
           next_plan_id' = next_plan_id /\ plans' = plans
    /\ Calls("delete_plan") => next_plan_id' = next_plan_id

(* C18 - After any sequence of create_plan, delete_plan and rejected       *)
(* operations executed one at a time, all stored plan ids are pairwise     *)
(* distinct and each successful create returns an id strictly greater than *)
(* every id assigned before it: an id is never reused after its plan is    *)
(* deleted, and a rejected create consumes no id.                          *)
C18_IdsUniqueAndIncreasing == []StoredIdsDistinct /\ [][IdsOnlyGrow]_vars

\* a plan created after the only plan was deleted: it has a new id
C18_Witness ==
    /\ CreateOK
    /\ Len(plans) = 1
    /\ last.plan_id = 2
    /\ plans[1].id = 2

----------------------------------------------------------------------------
\* the plans of pl other than the one with this id, in their order
Others(pl, id) == SelectSeq(pl, LAMBDA p : p.id # id)
Stored(id) == \E i \in 1..Len(plans) : plans[i].id = id

DeleteRemovesOnePlan ==
    Calls("delete_plan") =>
        IF last'.ok
        THEN /\ Stored(last'.plan_id)
             /\ plans' = Others(plans, last'.plan_id)
             /\ Len(plans') = Len(plans) - 1
             /\ \A i \in 1..Len(plans') : plans'[i].id # last'.plan_id
             /\ next_plan_id' = next_plan_id
        ELSE /\ ~Stored(last'.plan_id)
             /\ plans' = plans
             /\ next_plan_id' = next_plan_id

GetAbsentChangesNothing ==
    Calls("get_plan") =>
        /\ last'.ok = Stored(last'.plan_id)
        /\ ~last'.ok => (plans' = plans /\ next_plan_id' = next_plan_id)

(* C19 - delete_plan(id) of an existing plan removes exactly that plan and *)
(* leaves every other plan (id, stops, frozen set) and next_plan_id        *)
(* unchanged, after which get_plan(id) raises not-found; delete_plan or    *)
(* get_plan of an absent id raises not-found and changes nothing.          *)
C19_DeleteRemovesExactlyThePlan ==
    [][DeleteRemovesOnePlan /\ GetAbsentChangesNothing]_vars

\* a plan was deleted and a plan stored after it is still there
C19_Witness ==
    /\ last.op = "delete_plan"
    /\ last.ok
    /\ \E i \in 1..Len(plans) : plans[i].id > last.plan_id

----------------------------------------------------------------------------
KnownShips == {"S1"}
KnownPorts == {"A", "B"}

\* the arguments create_plan accepts
Acceptable(args) ==
    /\ args.ship \in KnownShips
    /\ Len(args.route) >= 2
    /\ \A i \in 1..Len(args.route) : args.route[i] \in KnownPorts
    /\ IsDate(args.start_date)

CreateDone == last.op = "create_plan"

RejectedCreateStoresNothing ==
    (Calls("create_plan") /\ ~last'.ok) =>
        plans' = plans /\ next_plan_id' = next_plan_id

(* C20 - create_plan with an unknown ship, a route of fewer than 2 ports,  *)
(* a route naming an unknown port, or an unparsable start date raises a    *)
(* validation error, adds no plan to the store and leaves next_plan_id     *)
(* unchanged.                                                              *)
C20_InvalidCreateRejected ==
    /\ [](CreateDone => (last.ok = Acceptable(last.args)))
    /\ [][RejectedCreateStoresNothing]_vars

\* a create_plan was rejected while a plan was stored, and the store and
\* the counter are what the earlier create left
C20_Witness ==
    /\ CreateDone
    /\ ~last.ok
    /\ ~Acceptable(last.args)
    /\ Len(plans) = 1
    /\ next_plan_id = 2

----------------------------------------------------------------------------
FreezeDone == last.op = "set_frozen_rows" /\ last.before # NoPlan
GivenRows == {last.args.frozen_rows[i] : i \in 1..Len(last.args.frozen_rows)}
LastPeriod(plan) == (Len(plan.stops) - 1) \div Len(plan.route)

(* C21 - set_frozen_rows(plan, rows) with every index in [0, (stopCount -  *)
(* 1) div routeLength] sets the plan's frozen set to exactly the distinct  *)
(* given indices; an empty list clears it; if an index is out of range the *)
(* call raises and the frozen set keeps its previous value; in no case     *)
(* does the call change a stop's arrival, departure or skipped flag.       *)
C21_FreezeSetsExactlyTheRows ==
    FreezeDone =>
        /\ After.stops = Before.stops
        /\ IF \A row \in GivenRows : row >= 0 /\ row <= LastPeriod(Before)
           THEN last.ok /\ After.frozen_rows = GivenRows
           ELSE ~last.ok /\ After.frozen_rows = Before.frozen_rows

\* a list with a repeated row, out of order, replaced the frozen set
C21_Witness ==
    /\ FreezeDone
    /\ last.ok
    /\ Len(last.args.frozen_rows) > Cardinality(GivenRows)
    /\ Cardinality(After.frozen_rows) = 2

----------------------------------------------------------------------------
\* every transition and stay value is a non-negative integer
RulesNonNegative ==
    /\ \A f \in DOMAIN transition_days : \A t \in DOMAIN transition_days[f] :
           transition_days[f][t] \in Nat
    /\ \A p \in DOMAIN stay_days : stay_days[p] \in Nat

\* set_transition: a rejected call changes no rule, an accepted one has
\* known ports and non-negative days and changes the named entry alone
SetTransitionFrame ==
    Calls("set_transition") =>
        LET a == last'.args
        IN  /\ last'.ok = (a.from_port \in KnownPorts /\ a.to_port \in KnownPorts
                           /\ a.days >= 0)
            /\ stay_days' = stay_days
            /\ plans' = plans
            /\ IF last'.ok
               THEN /\ transition_days'[a.from_port][a.to_port] = a.days
                    /\ \A f, t \in KnownPorts :
                           <<f, t>> # <<a.from_port, a.to_port>>
                           => transition_days'[f][t] = transition_days[f][t]
               ELSE transition_days' = transition_days

\* set_stay: the same for the stay of one port
SetStayFrame ==
    Calls("set_stay") =>
        LET a == last'.args
        IN  /\ last'.ok = (a.port \in KnownPorts /\ a.days >= 0)
            /\ transition_days' = transition_days
            /\ plans' = plans
            /\ IF last'.ok
               THEN /\ a.port \in DOMAIN stay_days'
                    /\ stay_days'[a.port] = a.days
                    /\ \A p \in KnownPorts \ {a.port} :
                           /\ (p \in DOMAIN stay_days') = (p \in DOMAIN stay_days)
                           /\ p \in DOMAIN stay_days => stay_days'[p] = stay_days[p]
               ELSE stay_days' = stay_days

(* C22 - set_transition and set_stay reject negative days and unknown      *)
(* ports without changing a timing rule, and on valid input change exactly *)
(* the one named entry; so after any sequence of configuration actions     *)
(* every transition and stay value is a non-negative integer, and no       *)
(* configuration action changes a plan's stops.                            *)
C22_ConfigurationActions ==
    /\ []RulesNonNegative
    /\ [][SetTransitionFrame /\ SetStayFrame]_vars

\* a negative stay was rejected after a transition had been changed
C22_Witness ==
    /\ last.op = "set_stay"
    /\ ~last.ok
    /\ last.args.days < 0
    /\ \E f, t \in KnownPorts : f # t /\ transition_days[f][t] # transition_days[t][f]

----------------------------------------------------------------------------
(* C24 - The service offers a cutoff-date freeze, set_frozen_until(plan,   *)
(* date): called for a stored plan with the departure of its stop 1, it    *)
(* succeeds, and the plan fetched afterwards carries frozen_until equal to *)
(* the cutoff date (a later batch edit then leaves stop 1 unchanged).      *)
C24_CutoffFreezeOffered ==
    (last.op = "set_frozen_until" /\ Stored(last.plan_id) /\ IsDate(last.args.date))
    => /\ last.ok
       /\ "frozen_until" \in DOMAIN GetPlan(last.plan_id)
       /\ GetPlan(last.plan_id).frozen_until = last.args.date

----------------------------------------------------------------------------
\* the stops of every plan of a saved document
SavedStops(doc) == [i \in 1..Len(doc.plans) |-> doc.plans[i].stops]

\* a successful call that writes no stop (a timing rule or the frozen set)
WritesNoStop ==
    /\ last'.ok
    /\ \/ Calls("set_stay")
       \/ Calls("set_transition")
       \/ Calls("set_frozen_rows")

(* C25 - The persisted document never contains stop data written by a      *)
(* rejected edit: the last saved document is the document as it stood      *)
(* after the last successful mutation, so a later successful operation     *)
(* that writes no stop (set_stay, set_transition, set_frozen_rows) saves   *)
(* the stops exactly as they were saved last.                              *)
C25_RejectedWritesNotSaved ==
    [][WritesNoStop => SavedStops(disk') = SavedStops(disk)]_vars

\* thread t has served a request of kind op to its end
Served(t, op) == th[t].op = op /\ th[t].pc = "done"

\* the stops of plan 1 as they are stored now
StopsNow == plans[CHOOSE i \in 1..Len(plans) : plans[i].id = 1].stops

(* C26 - under SpecThreads: when a reader ran while a reconciliation pass  *)
(* of another thread was under way on the same plan, what it observed is   *)
(* the stop sequence from before the pass or the one the pass left, never  *)
(* one with only part of the writes applied.                               *)
C26_ReaderSeesNoPartialPass ==
    \A r \in DOMAIN th : \A w \in DOMAIN th :
        Served(r, "read") /\ Served(w, "update_plan_from_manual_table")
            => th[r].observed = th[w].before \/ th[r].observed = StopsNow

(* C27 - under SpecThreads: when two create_plan calls on different        *)
(* threads have both completed, they returned different ids, the stored    *)
(* ids are distinct, and next_plan_id went from the loaded 2 to 4.         *)
C27_ConcurrentCreatesGetDistinctIds ==
    (\A t \in DOMAIN th : Served(t, "create_plan")) /\ DOMAIN th # {}
        => /\ \A t \in DOMAIN th : \A u \in DOMAIN th :
                 t # u => th[t].plan_id # th[u].plan_id
           /\ StoredIdsDistinct
           /\ Len(plans) = 3
           /\ next_plan_id = 4

----------------------------------------------------------------------------
\* stop idx lay in a frozen period but held no dates and was not skipped
FrozenButEmpty(idx) ==
    /\ PeriodOf(Before, idx) \in Before.frozen_rows
    /\ Undated(Before.stops[idx + 1])
    /\ ~Before.stops[idx + 1].skipped

(* C28 - under SpecLoaded: a frozen period protects only stops that hold   *)
(* both dates or are skipped.  A successful pass gives every stop of a     *)
(* frozen period that was empty, not skipped and not in the batch the      *)
(* dates the chain derives, as for a stop outside any frozen period; and   *)
(* set_frozen_rows itself leaves every stop as it was, so freezing shows   *)
(* only in the next pass.                                                  *)
C28_FreezeProtectsOnlyDatedStops ==
    /\ UpdateOK =>
          \A idx \in Indices :
              FrozenButEmpty(idx) /\ ~Submitted(idx)
                  => Dated(After.stops[idx + 1]) /\ FollowsChain(idx)
    /\ FreezeDone /\ last.ok =>
          \A idx \in Indices : After.stops[idx + 1] = Before.stops[idx + 1]

\* the plan was cleared, a period of it frozen, and a pass with an empty
\* batch then dated every stop of that period
C28_Witness ==
    /\ ops = 3
    /\ UpdateOK
    /\ last.args.manual_map = <<>>
    /\ \E row \in Before.frozen_rows :
           /\ PeriodStops(Before, row) # {}
           /\ \A idx \in PeriodStops(Before, row) :
                  FrozenButEmpty(idx) /\ Dated(After.stops[idx + 1])

----------------------------------------------------------------------------
\* every stored stop sits at the port its index has in the route
PortsFollowRoute ==
    \A i \in 1..Len(plans) : \A k \in 1..Len(plans[i].stops) :
        plans[i].stops[k].port = plans[i].route[((k - 1) % Len(plans[i].route)) + 1]

\* a plan stored before and after the step keeps its stops in number, order and port
StopsStayInPlace ==
    \A i \in 1..Len(plans) : \A j \in 1..Len(plans') :
        plans[i].id = plans'[j].id
            => /\ Len(plans'[j].stops) = Len(plans[i].stops)
               /\ \A k \in 1..Len(plans[i].stops) :
                      plans'[j].stops[k].port = plans[i].stops[k].port

(* C29 - No operation after creation adds, removes or reorders stops or    *)
(* changes a stop's port: every step keeps the stop count and the ports of *)
(* each plan that stays stored, and in every state stop i of a plan is at  *)
(* route[i mod len(route)].                                                *)
C29_StopsAndPortsFixed == []PortsFollowRoute /\ [][StopsStayInPlace]_vars

\* a plan of three stops or more was cleared and then dated again by a pass
C29_Witness ==
    /\ ops = 3
    /\ UpdateOK
    /\ Len(Before.stops) >= 3
    /\ Len(After.stops) = Len(Before.stops)
    /\ \A idx \in Indices : Undated(Before.stops[idx + 1]) /\ Dated(After.stops[idx + 1])

----------------------------------------------------------------------------
\* both dates or neither, and no date on a skipped stop
WellFormedStop(stop) ==
    /\ (stop.arrival = Empty) = (stop.departure = Empty)
    /\ stop.skipped => stop.arrival = Empty /\ stop.departure = Empty

(* C30 - In every reachable state, those left by rejected edits and by     *)
(* clear_plan_schedule included, each stop of each plan has both dates or  *)
(* neither, and a skipped stop has neither.                                *)
C30_BothDatesOrNeither ==
    \A i \in 1..Len(plans) : \A k \in 1..Len(plans[i].stops) :
        WellFormedStop(plans[i].stops[k])

\* a rejected edit left writes behind in a plan that has a skipped stop
C30_Witness ==
    /\ UpdateRaised \/ ManualRaised
    /\ After.stops # Before.stops
    /\ \E idx \in Indices : After.stops[idx + 1].skipped

----------------------------------------------------------------------------
TableDone == last.op = "build_schedule_table" /\ last.ok
Table == last.args.table
Columns == {Table.ports[i] : i \in 1..Len(Table.ports)}
RoutePorts(plan) == {plan.route[i] : i \in 1..Len(plan.route)}
FirstAt(plan, port) ==
    CHOOSE i \in 1..Len(plan.route) :
        plan.route[i] = port /\ \A j \in 1..(i - 1) : plan.route[j] # port

\* the columns are the distinct ports of the route in first-occurrence order
ColumnsAreRoutePorts ==
    /\ Columns = RoutePorts(Before)
    /\ \A i \in 1..Len(Table.ports) : \A j \in 1..Len(Table.ports) :
           i < j => FirstAt(Before, Table.ports[i]) < FirstAt(Before, Table.ports[j])

\* rows * routeLength covers the stops, and one row less does not
RowsAreTraversals ==
    /\ Len(Table.rows) * Len(Before.route) >= Len(Before.stops)
    /\ Len(Table.rows) > 0 => (Len(Table.rows) - 1) * Len(Before.route) < Len(Before.stops)

\* the stops of period row (counted from 0) at the port
StopsAt(row, port) == {idx \in PeriodStops(Before, row) : Before.stops[idx + 1].port = port}

CellShows(cell, idx) ==
    /\ cell.stop_index = idx
    /\ cell.arrival = Before.stops[idx + 1].arrival
    /\ cell.departure = Before.stops[idx + 1].departure

CellIsPlaceholder(cell) ==
    /\ cell.arrival.form = "placeholder"
    /\ cell.departure.form = "placeholder"
    /\ cell.stop_index \notin Indices

CellsMatchStops ==
    \A r \in 1..Len(Table.rows) : \A port \in Columns :
        IF StopsAt(r - 1, port) = {}
        THEN CellIsPlaceholder(Table.rows[r][port])
        ELSE \E idx \in StopsAt(r - 1, port) : CellShows(Table.rows[r][port], idx)

CellsOf(idx) ==
    {c \in (1..Len(Table.rows)) \X Columns : Table.rows[c[1]][c[2]].stop_index = idx}

EveryStopInOneCell == \A idx \in Indices : Cardinality(CellsOf(idx)) = 1

(* C31 - build_schedule_table returns the distinct route ports in          *)
(* first-occurrence order as columns and ceil(stopCount / routeLength)     *)
(* rows; a cell holds the placeholder and no stop index iff its period has *)
(* no stop at its port, otherwise the dates and index of such a stop;      *)
(* every stop of the plan is in exactly one cell, also when the route      *)
(* repeats a port; and the call leaves the plan's stops as they were.      *)
C31_TableShowsEveryStop ==
    TableDone =>
        /\ ColumnsAreRoutePorts
        /\ RowsAreTraversals
        /\ CellsMatchStops
        /\ EveryStopInOneCell
        /\ After.stops = Before.stops


====
